---- MODULE Spec2Model ----
(***************************************************************************)
(* prettycbor: the single-pass formatter pretty_print of src/main.rs and   *)
(* its helpers process_char, write_char, newline, is_open and is_close;    *)
(* the input selection of main; and the hand-off of cbor2diag to the       *)
(* external decoder through two pipes.                                     *)
(*                                                                         *)
(* Spec is one call of pretty_print, MainSpec one run of main (which calls *)
(* pretty_print), and PipeSpec / FairPipeSpec one call of cbor2diag seen   *)
(* thread by thread.                                                       *)
(*                                                                         *)
(* The input is a sequence of bytes (0..255).  The output String is kept   *)
(* as the sequence of its UTF-8 bytes.  Every value of type usize is kept  *)
(* as its two's-complement representative: the integer x stands for the    *)
(* usize value x mod 2^64, so that -1 stands for usize::MAX.  Wrapping     *)
(* addition, subtraction and multiplication are then the plain integer     *)
(* operations, and a usize value exceeds isize::MAX exactly when its       *)
(* representative is negative.                                             *)
(***************************************************************************)
EXTENDS Integers, Sequences, FiniteSets

\* ---------------------------------------------------------------- bounds
\* longest enumerated input
MaxLen == 3
\* longest raw text given to main
MaxRaw == 2
\* capacity of a pipe, bytes handed to the decoder, bytes it prints
MaxCap == 2
MaxInput == 3
MaxOutput == 3

\* ------------------------------------------------------ program constants
SPACE_COUNT == 2
QUOTE == 34
BACKSLASH == 92
SPACE == 32
COLON == 58
COMMA == 44
LBRACE == 123
RBRACE == 125
LBRACKET == 91
RBRACKET == 93
LF == 10

\* ------------------------------------------------------------ the inputs
\* bytes the enumerated inputs are made of: the structural characters,
\* quote, backslash, space, the letter a and the non-ASCII byte 0xC3
Alphabet == {LBRACE, RBRACE, LBRACKET, RBRACKET, QUOTE, BACKSLASH,
             COMMA, COLON, SPACE, 97, 195}

\* {}
ExEmptyMap == <<123, 125>>
\* []
ExEmptyArray == <<91, 93>>
\* {"a":[]}
ExNestedEmpty == <<123, 34, 97, 34, 58, 91, 93, 125>>
\* {"a":1,"b":2}
ExMap == <<123, 34, 97, 34, 58, 49, 44, 34, 98, 34, 58, 50, 125>>
\* [1,[2,3]]
ExNested == <<91, 49, 44, 91, 50, 44, 51, 93, 93>>
\* "key":value
ExKeyTight == <<34, 107, 101, 121, 34, 58, 118, 97, 108, 117, 101>>
\* "key": value
ExKeyAfter == <<34, 107, 101, 121, 34, 58, 32, 118, 97, 108, 117, 101>>
\* "key" : value
ExKeyAround == <<34, 107, 101, 121, 34, 32, 58, 32, 118, 97, 108, 117, 101>>
\* "a, b: c"
ExMasked == <<34, 97, 44, 32, 98, 58, 32, 99, 34>>
\* { "a" : 1 }
ExSpaced == <<123, 32, 34, 97, 34, 32, 58, 32, 49, 32, 125>>
\* "\\"   (a string holding one escaped backslash)
ExBackslash == <<34, 92, 92, 34>>
\* ["\\"]
ExBackslashArray == <<91, 34, 92, 92, 34, 93>>
\* "e-acute" in UTF-8
ExAccent == <<34, 195, 169, 34>>

Examples == {ExEmptyMap, ExEmptyArray, ExNestedEmpty, ExMap, ExNested,
             ExKeyTight, ExKeyAfter, ExKeyAround, ExMasked, ExSpaced,
             ExBackslash, ExBackslashArray, ExAccent}

Inputs == UNION {[1..n -> Alphabet] : n \in 0..MaxLen} \cup Examples

\* --indent: the default, its double, and no indentation at all
Widths == {0, SPACE_COUNT, 2 * SPACE_COUNT}

\* raw texts given to main, made of the characters 0 a [ ]
RawAlphabet == {48, 97, 91, 93}

RawInputs == UNION {[1..n -> RawAlphabet] : n \in 0..MaxRaw}

\* what the decoder may print before it exits: nothing, 0 and a line
\* break, [] and a line break
DecoderOutputs == {<<>>, <<48, 10>>, <<91, 93, 10>>}

\* pretty_print
VARIABLES input, space_count, overflow_checks, idx, in_str, indent_count,
          output, pc, trace

\* main: its position, the parsed command line, the text on standard
\* input, input_raw, the error it failed with, what it printed, and the
\* record of the calls of cbor2diag
VARIABLES mpc, cli_input, stdin_text, input_raw, main_err, printed,
          decoder_calls

\* cbor2diag: the main thread, the writer thread (bytes left to write), the
\* decoder process (bytes read, end-of-file seen, bytes left to print), and
\* the two pipes
VARIABLES pipe_cap, in_size, m_state, m_captured, w_state, w_left,
          stdin_buf, stdin_wopen, d_state, d_read, d_eof, d_left, stdout_buf

fmtvars == <<input, space_count, overflow_checks, idx, in_str, indent_count,
             output, pc, trace>>

mainvars == <<mpc, cli_input, stdin_text, input_raw, main_err, printed,
              decoder_calls>>

pipevars == <<pipe_cap, in_size, m_state, m_captured, w_state, w_left,
              stdin_buf, stdin_wopen, d_state, d_read, d_eof, d_left,
              stdout_buf>>

vars == <<fmtvars, mainvars, pipevars>>

\* a specification that does not run main or cbor2diag holds their
\* variables at these values
MainUnused ==
    /\ mpc = "none"
    /\ cli_input = [hex |-> FALSE, diag |-> FALSE, embedded |-> FALSE,
                    indent |-> SPACE_COUNT, data |-> {}]
    /\ stdin_text = <<>>
    /\ input_raw = <<>>
    /\ main_err = ""
    /\ printed = <<>>
    /\ decoder_calls = <<>>

PipeUnused ==
    /\ pipe_cap = 1
    /\ in_size = 0
    /\ m_state = "none"
    /\ m_captured = 0
    /\ w_state = "none"
    /\ w_left = 0
    /\ stdin_buf = 0
    /\ stdin_wopen = FALSE
    /\ d_state = "none"
    /\ d_read = 0
    /\ d_eof = FALSE
    /\ d_left = 0
    /\ stdout_buf = 0

\* ------------------------------------------------------------- helpers
Spaces(n) == [k \in 1..n |-> SPACE]

\* `input[idx] as char` maps the byte b to the code point U+00b, and
\* String::write_char appends the UTF-8 encoding of that code point
Utf8(c) == IF c < 128 THEN <<c>> ELSE <<192 + (c \div 64), 128 + (c % 64)>>

\* String::with_capacity: the fresh output buffer
NewOutput == <<>>

\* is_open as it would be had the square bracket been forgotten
is_open_brace_only(c) == c = LBRACE

is_open(c) == c = LBRACE \/ c = LBRACKET

\* is_close as it would be had the square bracket been forgotten
is_close_brace_only(c) == c = RBRACE

is_close(c) == c = RBRACE \/ c = RBRACKET

\* write_char as it would be if the colon rule ignored the string mode
write_char_colon_anywhere(out, c, instr) ==
    IF ~instr /\ c = SPACE THEN out
    ELSE IF c = COLON THEN (out \o Utf8(c)) \o <<SPACE>>
    ELSE out \o Utf8(c)

write_char(out, c, instr) ==
    IF ~instr /\ c = SPACE THEN out
    ELSE IF ~instr /\ c = COLON THEN (out \o Utf8(c)) \o <<SPACE>>
    ELSE out \o Utf8(c)

\* usize arithmetic: with overflow checks (the dev profile) an overflow
\* panics, without them (the release profile) the result wraps
AddOverflows(a, b) == a < 0 /\ a + b >= 0
SubOverflows(a, b) == a >= 0 /\ a - b < 0
MulOverflows(a, b) == a < 0 /\ b >= 2

\* " ".repeat(n) panics with "capacity overflow" when n exceeds isize::MAX
RepeatPanics(n) == n < 0

\* newline as it would be if the indentation ignored the indent width
newline_one_per_level(out, depth, width) ==
    LET o1 == out \o <<LF>>
    IN IF RepeatPanics(depth)
       THEN [panicked |-> TRUE, output |-> o1]
       ELSE [panicked |-> FALSE, output |-> o1 \o Spaces(depth)]

newline(out, depth, width) ==
    LET o1 == out \o <<LF>>
        n == depth * width
    IN IF overflow_checks /\ MulOverflows(depth, width)
       THEN [panicked |-> TRUE, output |-> o1]
       ELSE IF RepeatPanics(n)
       THEN [panicked |-> TRUE, output |-> o1]
       ELSE [panicked |-> FALSE, output |-> o1 \o Spaces(n)]

\* process_char as it would be if an opening bracket indented the next line
\* by the depth it had before the increment
process_char_indent_before_increment(c, out, depth, width, prev, next, instr) ==
    IF is_open(c) THEN
        LET o1 == write_char(out, c, instr) IN
        IF overflow_checks /\ AddOverflows(depth, 1)
        THEN [panicked |-> TRUE, output |-> o1, indent_count |-> depth]
        ELSE IF \E ch \in next : ~is_close(ch)
        THEN LET r == newline(o1, depth, width)
             IN [panicked |-> r.panicked, output |-> r.output,
                 indent_count |-> depth + 1]
        ELSE [panicked |-> FALSE, output |-> o1, indent_count |-> depth + 1]
    ELSE IF is_close(c) THEN
        IF overflow_checks /\ SubOverflows(depth, 1)
        THEN [panicked |-> TRUE, output |-> out, indent_count |-> depth]
        ELSE IF \E ch \in prev : ~is_open(ch)
        THEN LET r == newline(out, depth - 1, width)
             IN [panicked |-> r.panicked,
                 output |-> IF r.panicked THEN r.output
                            ELSE write_char(r.output, c, instr),
                 indent_count |-> depth - 1]
        ELSE [panicked |-> FALSE, output |-> write_char(out, c, instr),
              indent_count |-> depth - 1]
    ELSE IF c = COMMA THEN
        LET r == newline(write_char(out, c, instr), depth, width)
        IN [panicked |-> r.panicked, output |-> r.output, indent_count |-> depth]
    ELSE [panicked |-> FALSE, output |-> write_char(out, c, instr),
          indent_count |-> depth]

\* prev and next are Option<char>, kept as a set with at most one element:
\* map_or(false, f) is \E over the set and map_or(true, f) is \A over it
process_char(c, out, depth, width, prev, next, instr) ==
    IF is_open(c) THEN
        LET o1 == write_char(out, c, instr) IN
        IF overflow_checks /\ AddOverflows(depth, 1)
        THEN [panicked |-> TRUE, output |-> o1, indent_count |-> depth]
        ELSE IF \E ch \in next : ~is_close(ch)
        THEN LET r == newline(o1, depth + 1, width)
             IN [panicked |-> r.panicked, output |-> r.output,
                 indent_count |-> depth + 1]
        ELSE [panicked |-> FALSE, output |-> o1, indent_count |-> depth + 1]
    ELSE IF is_close(c) THEN
        IF overflow_checks /\ SubOverflows(depth, 1)
        THEN [panicked |-> TRUE, output |-> out, indent_count |-> depth]
        ELSE IF \E ch \in prev : ~is_open(ch)
        THEN LET r == newline(out, depth - 1, width)
             IN [panicked |-> r.panicked,
                 output |-> IF r.panicked THEN r.output
                            ELSE write_char(r.output, c, instr),
                 indent_count |-> depth - 1]
        ELSE [panicked |-> FALSE, output |-> write_char(out, c, instr),
              indent_count |-> depth - 1]
    ELSE IF c = COMMA THEN
        LET r == newline(write_char(out, c, instr), depth, width)
        IN [panicked |-> r.panicked, output |-> r.output, indent_count |-> depth]
    ELSE [panicked |-> FALSE, output |-> write_char(out, c, instr),
          indent_count |-> depth]

\* the state of the scan loop of pretty_print before the first character
ScanStart == [in_str |-> FALSE, indent_count |-> 0, output |-> NewOutput,
              panicked |-> FALSE]

\* LoopBody as it would be if every quote toggled the string mode, escaped
\* or not
LoopBody_every_quote_toggles(s, inp, width, i) ==
    LET c == inp[i + 1]
        prev == IF i = 0 THEN {} ELSE {inp[i]}
        next == IF i + 1 < Len(inp) THEN {inp[i + 2]} ELSE {}
        flag == IF c = QUOTE
                THEN ~s.in_str ELSE s.in_str
    IN IF flag
       THEN [in_str |-> flag, indent_count |-> s.indent_count,
             output |-> write_char(s.output, c, flag), panicked |-> FALSE]
       ELSE LET r == process_char(c, s.output, s.indent_count, width,
                                  prev, next, flag)
            IN [in_str |-> flag, indent_count |-> r.indent_count,
                output |-> r.output, panicked |-> r.panicked]

\* one iteration of the loop of pretty_print, at the 0-based index i
LoopBody(s, inp, width, i) ==
    LET c == inp[i + 1]
        prev == IF i = 0 THEN {} ELSE {inp[i]}
        next == IF i + 1 < Len(inp) THEN {inp[i + 2]} ELSE {}
        flag == IF c = QUOTE /\ (\A ch \in prev : ch # BACKSLASH)
                THEN ~s.in_str ELSE s.in_str
    IN IF flag
       THEN [in_str |-> flag, indent_count |-> s.indent_count,
             output |-> write_char(s.output, c, flag), panicked |-> FALSE]
       ELSE LET r == process_char(c, s.output, s.indent_count, width,
                                  prev, next, flag)
            IN [in_str |-> flag, indent_count |-> r.indent_count,
                output |-> r.output, panicked |-> r.panicked]

RECURSIVE ScanFrom(_, _, _, _)
ScanFrom(s, inp, width, i) ==
    IF i >= Len(inp) \/ s.panicked THEN s
    ELSE ScanFrom(LoopBody(s, inp, width, i), inp, width, i + 1)

\* the whole call: .panicked tells whether it returned, .output what
pretty_print(inp, width) == ScanFrom(ScanStart, inp, width, 0)

\* ------------------------------------------------------- the state machine
Init ==
    /\ input \in Inputs
    /\ space_count \in Widths
    /\ overflow_checks \in BOOLEAN
    /\ idx = 0
    /\ in_str = ScanStart.in_str
    /\ indent_count = ScanStart.indent_count
    /\ output = ScanStart.output
    /\ pc = "scan"
    /\ trace = <<>>
    /\ MainUnused
    /\ PipeUnused

\* one iteration of `for idx in 0..input.len()`
ScanChar ==
    /\ pc = "scan"
    /\ idx < Len(input)
    /\ LET s == [in_str |-> in_str, indent_count |-> indent_count,
                 output |-> output, panicked |-> FALSE]
           r == LoopBody(s, input, space_count, idx)
       IN /\ in_str' = r.in_str
          /\ indent_count' = r.indent_count
          /\ output' = r.output
          /\ pc' = IF r.panicked THEN "panicked" ELSE "scan"
          /\ trace' = Append(trace,
                 [c |-> input[idx + 1], in_str |-> r.in_str,
                  before |-> indent_count, after |-> r.indent_count,
                  from |-> Len(output), to |-> Len(r.output),
                  panicked |-> r.panicked])
    /\ idx' = idx + 1
    /\ UNCHANGED <<input, space_count, overflow_checks, mainvars, pipevars>>

\* Return as it would be if the formatter ended its output with a line break
Return_trailing_newline ==
    /\ pc = "scan"
    /\ idx = Len(input)
    /\ pc' = "done"
    /\ output' = output \o <<LF>>
    /\ UNCHANGED <<input, space_count, overflow_checks, idx, in_str,
                   indent_count, trace, mainvars, pipevars>>

\* the loop is over: pretty_print returns the output
Return ==
    /\ pc = "scan"
    /\ idx = Len(input)
    /\ pc' = "done"
    /\ UNCHANGED <<input, space_count, overflow_checks, idx, in_str,
                   indent_count, output, trace, mainvars, pipevars>>

Next == ScanChar \/ Return

Spec == Init /\ [][Next]_vars

\* ------------------------------------------------------------------- main
\* hex::decode: the text must have an even length and consist of the
\* digits 0-9, a-f, A-F; two digits give one byte
HexDigit(c) ==
    IF c \in 48..57 THEN c - 48
    ELSE IF c \in 97..102 THEN c - 87
    ELSE IF c \in 65..70 THEN c - 55
    ELSE -1

hex_decode(text) ==
    IF Len(text) % 2 # 0 \/ \E k \in 1..Len(text) : HexDigit(text[k]) = -1
    THEN [ok |-> FALSE, bytes |-> <<>>]
    ELSE [ok |-> TRUE,
          bytes |-> [k \in 1..(Len(text) \div 2) |->
                        16 * HexDigit(text[2 * k - 1]) + HexDigit(text[2 * k])]]

\* the results cbor2diag can have: the decoder is not found, the decoder
\* runs and exits with a failure status, or it exits with success and its
\* standard output is returned as it is.  calls records the invocation.
cbor2diag(bytes, embedded) ==
    {[ok |-> FALSE, err |-> "failed to locate cbor2diag.rb", out |-> <<>>,
      calls |-> <<[bytes |-> bytes, embedded |-> embedded, ran |-> FALSE,
                   ok |-> FALSE, out |-> <<>>]>>],
     [ok |-> FALSE, err |-> "cbor2diag.rb failed", out |-> <<>>,
      calls |-> <<[bytes |-> bytes, embedded |-> embedded, ran |-> TRUE,
                   ok |-> FALSE, out |-> <<>>]>>]}
    \cup {[ok |-> TRUE, err |-> "", out |-> o,
           calls |-> <<[bytes |-> bytes, embedded |-> embedded, ran |-> TRUE,
                        ok |-> TRUE, out |-> o]>>] : o \in DecoderOutputs}

\* try_hex_cbor2diag as it would be if a failing decoder made it fall back
\* to the raw text
try_hex_cbor2diag_fallback(text, embedded) ==
    LET h == hex_decode(text)
    IN IF h.ok
       THEN {IF r.ok THEN r
             ELSE [ok |-> TRUE, err |-> "", out |-> text, calls |-> r.calls]
             : r \in cbor2diag(h.bytes, embedded)}
       ELSE {[ok |-> TRUE, err |-> "", out |-> text, calls |-> <<>>]}

try_hex_cbor2diag(text, embedded) ==
    LET h == hex_decode(text)
    IN IF h.ok
       THEN cbor2diag(h.bytes, embedded)
       ELSE {[ok |-> TRUE, err |-> "", out |-> text, calls |-> <<>>]}

\* clap: --hex and --diag form a group, so at most one of them is given;
\* the data argument is optional
CliInputs ==
    {c \in [hex : BOOLEAN, diag : BOOLEAN, embedded : BOOLEAN,
            indent : Widths, data : {{}} \cup {{t} : t \in RawInputs}]
       : ~(c.hex /\ c.diag)}

MainInit ==
    /\ mpc = "start"
    /\ cli_input \in CliInputs
    /\ stdin_text \in (IF cli_input.data = {} THEN RawInputs ELSE {<<>>})
    /\ input_raw = <<>>
    /\ main_err = ""
    /\ printed = <<>>
    /\ decoder_calls = <<>>
    /\ overflow_checks \in BOOLEAN
    /\ input = <<>>
    /\ space_count = cli_input.indent
    /\ idx = 0
    /\ in_str = ScanStart.in_str
    /\ indent_count = ScanStart.indent_count
    /\ output = ScanStart.output
    /\ pc = "idle"
    /\ trace = <<>>
    /\ PipeUnused

\* main up to the emptiness test: input_raw is the data argument or, without
\* one, all of standard input; an empty input_raw is an error
MainAcquire ==
    /\ mpc = "start"
    /\ LET raw == IF cli_input.data # {}
                  THEN CHOOSE t \in cli_input.data : TRUE
                  ELSE stdin_text
       IN /\ input_raw' = raw
          /\ IF Len(raw) = 0
             THEN mpc' = "failed" /\ main_err' = "no input received"
             ELSE mpc' = "select" /\ main_err' = main_err
    /\ UNCHANGED <<cli_input, stdin_text, printed, decoder_calls, fmtvars,
                   pipevars>>

\* the selected input is ready (r.ok) and pretty_print is called with it,
\* or main returns the error
Proceed(r) ==
    /\ decoder_calls' = r.calls
    /\ IF r.ok
       THEN /\ mpc' = "format"
            /\ main_err' = main_err
            /\ input' = r.out
            /\ space_count' = cli_input.indent
            /\ pc' = "scan"
       ELSE /\ mpc' = "failed"
            /\ main_err' = r.err
            /\ UNCHANGED <<input, space_count, pc>>
    /\ UNCHANGED <<cli_input, stdin_text, input_raw, printed, overflow_checks,
                   idx, in_str, indent_count, output, trace, pipevars>>

\* --hex: the raw text must be hexadecimal and goes through the decoder
MainSelectHex ==
    /\ mpc = "select"
    /\ cli_input.hex
    /\ LET h == hex_decode(input_raw)
       IN IF h.ok
          THEN \E r \in cbor2diag(h.bytes, cli_input.embedded) : Proceed(r)
          ELSE Proceed([ok |-> FALSE, err |-> "hexadecimal decoding failed",
                        out |-> <<>>, calls |-> <<>>])

\* --diag: the raw text is formatted as it is
MainSelectDiag ==
    /\ mpc = "select"
    /\ ~cli_input.hex
    /\ cli_input.diag
    /\ Proceed([ok |-> TRUE, err |-> "", out |-> input_raw, calls |-> <<>>])

\* neither flag
MainSelectAuto ==
    /\ mpc = "select"
    /\ ~cli_input.hex
    /\ ~cli_input.diag
    /\ \E r \in try_hex_cbor2diag(input_raw, cli_input.embedded) : Proceed(r)

\* println!("{}", ...) of what pretty_print returned
MainPrint ==
    /\ mpc = "format"
    /\ pc = "done"
    /\ printed' = output \o <<LF>>
    /\ mpc' = "exit"
    /\ UNCHANGED <<cli_input, stdin_text, input_raw, main_err, decoder_calls,
                   fmtvars, pipevars>>

MainNext ==
    \/ MainAcquire
    \/ MainSelectHex
    \/ MainSelectDiag
    \/ MainSelectAuto
    \/ ScanChar
    \/ Return
    \/ MainPrint

MainSpec == MainInit /\ [][MainNext]_vars

TypeOK ==
    /\ input \in Inputs
    /\ space_count \in Widths
    /\ overflow_checks \in BOOLEAN
    /\ idx \in 0..Len(input)
    /\ in_str \in BOOLEAN
    /\ indent_count \in Int
    /\ pc \in {"scan", "done", "panicked"}
    /\ Len(trace) = idx
    /\ MainUnused
    /\ PipeUnused

\* ------------------------------------------------- reading the scan record
\* trace[i] records the iteration that scanned input[i]: the string-mode
\* flag it wrote with, the depth before and after, and the part of the
\* output buffer it appended, output[from+1 .. to]
Scanned == 1..Len(trace)

Seg(i) == SubSeq(output, trace[i].from + 1, trace[i].to)

FlagBefore(i) == IF i = 1 THEN FALSE ELSE trace[i - 1].in_str

\* input[i] belongs to a string literal: the opening quote and the contents
\* are scanned with the flag set, the closing quote clears it
InLiteral(i) == trace[i].in_str \/ (trace[i].c = QUOTE /\ FlagBefore(i))

\* input[i] was scanned outside every string literal
Outside(i) == ~trace[i].in_str

RECURSIVE PickFrom(_, _, _)
PickFrom(s, K, i) ==
    IF i > Len(s) THEN <<>>
    ELSE (IF i \in K THEN <<s[i]>> ELSE <<>>) \o PickFrom(s, K, i + 1)

\* the scanned input without the spaces that lie outside string literals
StripSpaces ==
    PickFrom(input, {i \in Scanned : ~(Outside(i) /\ trace[i].c = SPACE)}, 1)

\* opening minus closing brackets among input[1..i] outside strings
RECURSIVE OpenMinusClose(_)
OpenMinusClose(i) ==
    IF i = 0 THEN 0
    ELSE OpenMinusClose(i - 1)
         + (IF Outside(i) /\ trace[i].c \in {123, 91} THEN 1 ELSE 0)
         - (IF Outside(i) /\ trace[i].c \in {125, 93} THEN 1 ELSE 0)

\* no closing bracket outside a string exceeds the opening ones before it
NoUnderflow == \A i \in Scanned : OpenMinusClose(i) >= 0

\* an output with every run of spaces that follows a line break doubled
RECURSIVE Rescale(_, _, _)
Rescale(s, i, indent) ==
    IF i > Len(s) THEN <<>>
    ELSE IF s[i] = 10 THEN <<10>> \o Rescale(s, i + 1, TRUE)
    ELSE IF s[i] = 32 /\ indent THEN <<32, 32>> \o Rescale(s, i + 1, TRUE)
    ELSE <<s[i]>> \o Rescale(s, i + 1, FALSE)

\* the space at position p of the segment t belongs to the indentation
\* that follows a line break of t
IsIndentSpace(t, p) ==
    \E q \in 1..(p - 1) : t[q] = 10 /\ \A r \in (q + 1)..p : t[r] = 32

\* well-formed text, read with full escape handling: inside a string a
\* backslash escapes the next character, every string is closed, and the
\* brackets outside strings are balanced
RECURSIVE Lex(_, _, _, _)
Lex(inp, i, mode, depth) ==
    IF i > Len(inp) THEN mode = "out" /\ depth = 0
    ELSE LET c == inp[i] IN
         IF mode = "esc" THEN Lex(inp, i + 1, "str", depth)
         ELSE IF mode = "str" THEN
             IF c = 92 THEN Lex(inp, i + 1, "esc", depth)
             ELSE IF c = 34 THEN Lex(inp, i + 1, "out", depth)
             ELSE Lex(inp, i + 1, "str", depth)
         ELSE IF c = 34 THEN Lex(inp, i + 1, "str", depth)
         ELSE IF c \in {123, 91} THEN Lex(inp, i + 1, "out", depth + 1)
         ELSE IF c \in {125, 93} THEN depth > 0 /\ Lex(inp, i + 1, "out", depth - 1)
         ELSE IF c = 92 THEN FALSE
         ELSE Lex(inp, i + 1, "out", depth)

WellFormed(inp) == Lex(inp, 1, "out", 0)

\* ------------------------------------------------------------------ claims

\* C1 (string masking): every input byte that lies inside a string literal,
\* from the opening quote up to and including the closing quote, is copied
\* to the output as exactly that one byte, whatever its value.
C1_StringMasking ==
    \A i \in Scanned : InLiteral(i) => Seg(i) = <<input[i]>>

\* C2 (no panic): pretty_print never panics, for every input and every
\* indent width, unmatched closing brackets included.
C2_NeverPanics == pc # "panicked"

\* C3 (underflow policy): the depth counter never silently wraps around to
\* a huge unsigned value: as long as the call has not failed, the depth is
\* a small non-negative count.
C3_NoSilentWraparound == pc # "panicked" => ~RepeatPanics(indent_count)

\* C4 (spacing-agnostic output): the output of a call equals the output for
\* the same input with every space outside a string literal removed; stated
\* here for the well-formed inputs only, where no bracket is unmatched.
C4_SpacingAgnostic ==
    (pc = "done" /\ WellFormed(input)) =>
        LET r == pretty_print(StripSpaces, space_count)
        IN ~r.panicked /\ r.output = output

\* C5 (depth returns to zero): before the first character the depth is 0
\* and the string-mode flag is false, and for every well-formed input the
\* same holds after the last character.
C5_DepthReturnsToZero ==
    /\ idx = 0 => indent_count = 0 /\ ~in_str
    /\ (pc = "done" /\ WellFormed(input)) => indent_count = 0 /\ ~in_str

\* C6 (empty container collapse): an opening bracket outside a string that
\* is directly followed by a closing bracket is emitted right next to it,
\* with no line break or space between them, while the depth goes up by one
\* and down again; {} gives {}, [] gives [], and {"a":[]} with width 2 gives
\* the three lines {, "a": [] indented by two, and }.
C6_EmptyContainerCollapse ==
    /\ \A i \in Scanned :
         (/\ Outside(i)
          /\ trace[i].c \in {123, 91}
          /\ i + 1 \in Scanned
          /\ input[i + 1] \in {125, 93})
         => /\ ~trace[i].panicked /\ ~trace[i + 1].panicked
            /\ Seg(i) = <<input[i]>>
            /\ Seg(i + 1) = <<input[i + 1]>>
            /\ trace[i + 1].from = trace[i].to
            /\ trace[i].after = trace[i].before + 1
            /\ trace[i + 1].before = trace[i].after
            /\ trace[i + 1].after = trace[i + 1].before - 1
    /\ (pc = "done" /\ input = ExEmptyMap) => output = <<123, 125>>
    /\ (pc = "done" /\ input = ExEmptyArray) => output = <<91, 93>>
    /\ (pc = "done" /\ input = ExNestedEmpty /\ space_count = 2)
         => output = <<123, 10, 32, 32, 34, 97, 34, 58, 32, 91, 93, 10, 125>>

C6_Witness ==
    /\ pc = "done" /\ input = ExNestedEmpty /\ space_count = 2
    /\ \E i \in Scanned : Outside(i) /\ trace[i].c = 91 /\ input[i + 1] = 93

\* C7 (comma rule): every comma outside a string is emitted followed by
\* exactly one line break and exactly indent width times d spaces, d being
\* the number of opening minus closing brackets scanned so far outside
\* strings, and the comma leaves the depth unchanged; the two worked
\* examples give the stated lines.
C7_CommaRule ==
    /\ \A i \in Scanned :
         (Outside(i) /\ trace[i].c = 44)
         => /\ ~trace[i].panicked
            /\ Seg(i) = <<44, 10>> \o Spaces(space_count * OpenMinusClose(i))
            /\ trace[i].after = trace[i].before
    /\ (pc = "done" /\ input = ExMap /\ space_count = 2)
         => output = <<123, 10, 32, 32, 34, 97, 34, 58, 32, 49, 44,
                       10, 32, 32, 34, 98, 34, 58, 32, 50, 10, 125>>
    /\ (pc = "done" /\ input = ExNested /\ space_count = 2)
         => output = <<91, 10, 32, 32, 49, 44, 10, 32, 32, 91,
                       10, 32, 32, 32, 32, 50, 44, 10, 32, 32, 32, 32, 51,
                       10, 32, 32, 93, 10, 93>>

\* C8 (colon rule): every colon outside a string is emitted followed by
\* exactly one space, whatever spaces the input had around it; a colon
\* inside a string gets no space; and outside strings every other emitted
\* space is indentation after a line break.
C8_ColonRule ==
    /\ \A i \in Scanned :
         /\ (Outside(i) /\ trace[i].c = 58) => Seg(i) = <<58, 32>>
         /\ (~Outside(i) /\ trace[i].c = 58) => Seg(i) = <<58>>
         /\ (Outside(i) /\ trace[i].c = 32) => Seg(i) = <<>>
         /\ (Outside(i) /\ trace[i].c # 58)
              => \A p \in 1..Len(Seg(i)) :
                     Seg(i)[p] = 32 => IsIndentSpace(Seg(i), p)
    /\ (pc = "done" /\ input \in {ExKeyTight, ExKeyAfter, ExKeyAround})
         => output = <<34, 107, 101, 121, 34, 58, 32, 118, 97, 108, 117, 101>>

C8_Witness ==
    /\ pc = "done" /\ input = ExKeyAround
    /\ \E i \in Scanned : Outside(i) /\ trace[i].c = 58 /\ input[i - 1] = 32

\* C9 (indent width): for an input whose closing brackets never exceed the
\* opening brackets scanned so far, the output for width 4 is the output for
\* width 2 with every run of indentation after a line break doubled and
\* everything else, the line breaks included, the same.
C9_WidthDoubles ==
    (pc = "done" /\ space_count = 2 /\ NoUnderflow)
    => LET r == pretty_print(input, 4)
       IN ~r.panicked /\ r.output = Rescale(output, 1, FALSE)

C9_Witness ==
    /\ pc = "done" /\ space_count = 2 /\ input = ExNested
    /\ Len(pretty_print(input, 4).output) > Len(output)

\* C10 (empty input): called with the empty sequence, pretty_print does not
\* fail and returns the empty sequence, for every indent width.
C10_EmptyInput ==
    input = <<>> => (pc # "panicked" /\ (pc = "done" => output = <<>>))

C10_Witness == input = <<>> /\ pc = "done" /\ output = <<>>

\* the part of the output that scanning input[i] appended, without the
\* characters the formatter adds: outside strings these are the line break
\* and every space (the spaces of the input are not copied there)
NotAdded(b) == b # 10 /\ b # 32

Core(i) == IF Outside(i) THEN SelectSeq(Seg(i), NotAdded) ELSE Seg(i)

RECURSIVE Kept(_)
Kept(i) == IF i = 0 THEN <<>> ELSE Kept(i - 1) \o Core(i)

\* what an opening bracket at input[i] must append when a line break follows
OpenWithBreak(i) ==
    <<input[i], 10>> \o Spaces(space_count * OpenMinusClose(i))

\* C12 (opening-bracket rule, as claimed): every opening bracket outside a
\* string, the last input character included, is emitted, increments the
\* depth, and is followed by a line break and width times the new depth
\* spaces unless the very next input character is a closing bracket.
C12_OpeningBracketRuleAnyPosition ==
    \A i \in Scanned :
        (Outside(i) /\ trace[i].c \in {123, 91})
        => /\ ~trace[i].panicked
           /\ trace[i].after = trace[i].before + 1
           /\ Seg(i) = IF i < Len(input) /\ input[i + 1] \in {125, 93}
                       THEN <<input[i]>>
                       ELSE OpenWithBreak(i)

\* C12 (opening-bracket rule, amended): every opening bracket outside a
\* string is emitted and increments the depth; it is followed by a line
\* break and width times the new depth spaces exactly when an input
\* character follows it and that character is not a closing bracket.
C12_OpeningBracketRule ==
    \A i \in Scanned :
        (Outside(i) /\ trace[i].c \in {123, 91})
        => /\ ~trace[i].panicked
           /\ trace[i].after = trace[i].before + 1
           /\ Seg(i) = IF i = Len(input) \/ input[i + 1] \in {125, 93}
                       THEN <<input[i]>>
                       ELSE OpenWithBreak(i)

C12_Witness ==
    /\ pc = "done" /\ input = <<91, 91>> /\ space_count = 2
    /\ output = <<91, 10, 32, 32, 91>>

\* C13 (closing-bracket rule): a closing bracket outside a string scanned at
\* depth at least 1 decrements the depth, then, unless the preceding input
\* character is an opening bracket, a line break and width times the new
\* depth spaces are emitted, and the bracket itself comes last.
C13_ClosingBracketRule ==
    \A i \in Scanned :
        (Outside(i) /\ trace[i].c \in {125, 93} /\ trace[i].before >= 1)
        => /\ ~trace[i].panicked
           /\ trace[i].after = trace[i].before - 1
           /\ trace[i].after = OpenMinusClose(i)
           /\ i > 1
           /\ Seg(i) = IF input[i - 1] \in {123, 91}
                       THEN <<input[i]>>
                       ELSE (<<10>> \o Spaces(space_count * trace[i].after))
                            \o <<input[i]>>

C13_Witness ==
    /\ pc = "done" /\ input = ExNested /\ space_count = 2
    /\ \E i \in Scanned : trace[i].c = 93 /\ trace[i].before = 2
                          /\ Seg(i) = <<10, 32, 32, 93>>

\* C14 (string-mode toggle): the flag starts false and flips at a character
\* exactly when that character is a quote that is the first character or
\* does not follow a backslash, so a quote after a doubled backslash does
\* not flip it; the opening quote is written in string mode, the closing
\* quote once and unchanged with the flag already false.
C14_StringModeToggle ==
    /\ idx = 0 => ~in_str
    /\ idx > 0 => in_str = trace[idx].in_str
    /\ \A i \in Scanned :
         /\ (trace[i].in_str # FlagBefore(i))
              <=> (input[i] = 34 /\ (i = 1 \/ input[i - 1] # 92))
         /\ input[i] = 34 => Seg(i) = <<34>>
    /\ (pc = "done" /\ input = ExBackslash) => in_str

C14_Witness ==
    /\ pc = "done" /\ input = ExBackslash /\ in_str
    /\ trace[1].in_str /\ trace[4].in_str /\ output = ExBackslash

\* C17 (content preservation): after every scanned prefix, deleting the
\* added characters from the output built so far leaves exactly the scanned
\* input without its spaces outside strings: nothing is dropped, duplicated,
\* reordered or changed.
C17_ContentPreserved ==
    pc # "panicked" => Kept(Len(trace)) = StripSpaces

\* ------------------------------------------------------- claims about main
\* the text consists of an even number of hexadecimal digits
IsHexText(text) ==
    /\ Len(text) % 2 = 0
    /\ \A k \in 1..Len(text) : text[k] \in (48..57) \cup (65..70) \cup (97..102)

\* main has passed the input selection
Selected == mpc \in {"format", "exit", "failed"} /\ main_err # "no input received"

\* pretty_print was called
Reached == pc # "idle"

\* the decoder ran once, with success, and its output is what is formatted
FormatsDecoderOutput ==
    /\ Len(decoder_calls) = 1
    /\ decoder_calls[1].ok
    /\ decoder_calls[1].bytes = hex_decode(input_raw).bytes
    /\ input = decoder_calls[1].out

\* the raw text is what is formatted, and the decoder was not called
FormatsRawInput == decoder_calls = <<>> /\ input = input_raw

\* C11 (input mode selection): with --hex the raw input must be hexadecimal,
\* otherwise main fails, and the decoder's output is formatted; with --diag
\* the raw input is formatted and the decoder is never invoked; with neither
\* flag a hexadecimal raw input goes through the decoder, whose failure is
\* an error with no fallback, and any other raw input is formatted directly.
C11_ModeSelection ==
    /\ (Selected /\ cli_input.hex) =>
          IF IsHexText(input_raw)
          THEN Len(decoder_calls) = 1 /\ (Reached <=> decoder_calls[1].ok)
               /\ (Reached => FormatsDecoderOutput)
          ELSE mpc = "failed" /\ ~Reached /\ decoder_calls = <<>>
    /\ (Selected /\ cli_input.diag) => (Reached /\ FormatsRawInput)
    /\ (Selected /\ ~cli_input.hex /\ ~cli_input.diag) =>
          IF IsHexText(input_raw)
          THEN Len(decoder_calls) = 1 /\ (Reached <=> decoder_calls[1].ok)
               /\ (Reached => FormatsDecoderOutput)
          ELSE Reached /\ FormatsRawInput
    /\ (\E k \in 1..Len(decoder_calls) : ~decoder_calls[k].ok)
          => (mpc = "failed" /\ ~Reached)
    /\ ~Selected => (~Reached /\ decoder_calls = <<>>)
    /\ mpc = "exit" => printed = pretty_print(input, cli_input.indent).output \o <<10>>

C11_Witness ==
    /\ mpc = "failed"
    /\ ~cli_input.hex /\ ~cli_input.diag
    /\ IsHexText(input_raw)
    /\ main_err = "cbor2diag.rb failed"

\* C16 (empty input is rejected before the formatter): pretty_print is never
\* called with an empty sequence; an empty raw input makes main fail with
\* "no input received" without a call of the decoder or of the formatter.
C16_NeverFormatsEmpty ==
    /\ Reached => input # <<>>
    /\ (mpc # "start" /\ input_raw = <<>>)
          => /\ mpc = "failed"
             /\ main_err = "no input received"
             /\ decoder_calls = <<>>
             /\ ~Reached

\* -------------------------------------------------------------- cbor2diag
\* The state after Command::spawn: the decoder runs with its standard input
\* and output on two pipes of pipe_cap bytes each.  The decoder is the
\* program the hand-off is written for: it reads its standard input up to
\* the end of file, prints d_left bytes in all, at any moment of its choice,
\* and then exits.  A write to a full pipe and a read from an empty open
\* pipe block.
Min(a, b) == IF a < b THEN a ELSE b

PipeInit ==
    /\ pipe_cap \in 1..MaxCap
    /\ in_size \in 0..MaxInput
    /\ w_left = in_size
    /\ d_left \in 0..MaxOutput
    /\ m_state = "spawned"
    /\ m_captured = 0
    /\ w_state = "unspawned"
    /\ stdin_buf = 0
    /\ stdin_wopen = TRUE
    /\ d_state = "idle"
    /\ d_read = 0
    /\ d_eof = FALSE
    /\ stdout_buf = 0
    /\ MainUnused
    /\ input = <<>>
    /\ space_count = SPACE_COUNT
    /\ overflow_checks = FALSE
    /\ idx = 0
    /\ in_str = ScanStart.in_str
    /\ indent_count = ScanStart.indent_count
    /\ output = ScanStart.output
    /\ pc = "idle"
    /\ trace = <<>>

\* the main thread takes the stdin handle, moves it into a new thread and
\* goes on to wait_with_output
SpawnWriter ==
    /\ m_state = "spawned"
    /\ m_state' = "reading"
    /\ w_state' = "writing"
    /\ UNCHANGED <<pipe_cap, in_size, m_captured, w_left, stdin_buf,
                   stdin_wopen, d_state, d_read, d_eof, d_left, stdout_buf,
                   fmtvars, mainvars>>

\* write_all: one write call moves as many bytes as fit, at least one
WriterWrite ==
    /\ w_state = "writing"
    /\ w_left > 0
    /\ stdin_buf < pipe_cap
    /\ \E k \in 1..Min(w_left, pipe_cap - stdin_buf) :
          /\ w_left' = w_left - k
          /\ stdin_buf' = stdin_buf + k
    /\ UNCHANGED <<pipe_cap, in_size, m_state, m_captured, w_state,
                   stdin_wopen, d_state, d_read, d_eof, d_left, stdout_buf,
                   fmtvars, mainvars>>

\* the closure ends: the stdin handle is dropped, which closes the pipe
WriterClose ==
    /\ w_state = "writing"
    /\ w_left = 0
    /\ w_state' = "done"
    /\ stdin_wopen' = FALSE
    /\ UNCHANGED <<pipe_cap, in_size, m_state, m_captured, w_left, stdin_buf,
                   d_state, d_read, d_eof, d_left, stdout_buf, fmtvars,
                   mainvars>>

DecoderRead ==
    /\ d_state = "idle"
    /\ ~d_eof
    /\ stdin_buf > 0
    /\ \E k \in 1..stdin_buf :
          /\ stdin_buf' = stdin_buf - k
          /\ d_read' = d_read + k
    /\ UNCHANGED <<pipe_cap, in_size, m_state, m_captured, w_state, w_left,
                   stdin_wopen, d_state, d_eof, d_left, stdout_buf, fmtvars,
                   mainvars>>

\* a read of the empty pipe returns end of file once the write end is closed
DecoderSeeEof ==
    /\ d_state = "idle"
    /\ ~d_eof
    /\ stdin_buf = 0
    /\ ~stdin_wopen
    /\ d_eof' = TRUE
    /\ UNCHANGED <<pipe_cap, in_size, m_state, m_captured, w_state, w_left,
                   stdin_buf, stdin_wopen, d_state, d_read, d_left,
                   stdout_buf, fmtvars, mainvars>>

\* the decoder enters a write to its standard output; it does nothing else
\* until that write has moved at least one byte
DecoderBeginWrite ==
    /\ d_state = "idle"
    /\ d_left > 0
    /\ d_state' = "writing"
    /\ UNCHANGED <<pipe_cap, in_size, m_state, m_captured, w_state, w_left,
                   stdin_buf, stdin_wopen, d_read, d_eof, d_left, stdout_buf,
                   fmtvars, mainvars>>

DecoderWrite ==
    /\ d_state = "writing"
    /\ stdout_buf < pipe_cap
    /\ \E k \in 1..Min(d_left, pipe_cap - stdout_buf) :
          /\ d_left' = d_left - k
          /\ stdout_buf' = stdout_buf + k
    /\ d_state' = "idle"
    /\ UNCHANGED <<pipe_cap, in_size, m_state, m_captured, w_state, w_left,
                   stdin_buf, stdin_wopen, d_read, d_eof, fmtvars, mainvars>>

\* the decoder exits, which closes its end of both pipes
DecoderExit ==
    /\ d_state = "idle"
    /\ d_eof
    /\ d_left = 0
    /\ d_state' = "exited"
    /\ UNCHANGED <<pipe_cap, in_size, m_state, m_captured, w_state, w_left,
                   stdin_buf, stdin_wopen, d_read, d_eof, d_left, stdout_buf,
                   fmtvars, mainvars>>

\* MainRead as it would be if the input were written before the output is
\* read, the output being read only once the writing is over
MainRead_after_writing ==
    /\ m_state = "reading"
    /\ w_state = "done"
    /\ stdout_buf > 0
    /\ \E k \in 1..stdout_buf :
          /\ stdout_buf' = stdout_buf - k
          /\ m_captured' = m_captured + k
    /\ UNCHANGED <<pipe_cap, in_size, m_state, w_state, w_left, stdin_buf,
                   stdin_wopen, d_state, d_read, d_eof, d_left, fmtvars,
                   mainvars>>

\* wait_with_output reads the decoder's standard output to its end
MainRead ==
    /\ m_state = "reading"
    /\ stdout_buf > 0
    /\ \E k \in 1..stdout_buf :
          /\ stdout_buf' = stdout_buf - k
          /\ m_captured' = m_captured + k
    /\ UNCHANGED <<pipe_cap, in_size, m_state, w_state, w_left, stdin_buf,
                   stdin_wopen, d_state, d_read, d_eof, d_left, fmtvars,
                   mainvars>>

\* end of file on the decoder's output, then wait() for the exited process:
\* wait_with_output returns
MainReturn ==
    /\ m_state = "reading"
    /\ stdout_buf = 0
    /\ d_state = "exited"
    /\ m_state' = "returned"
    /\ UNCHANGED <<pipe_cap, in_size, m_captured, w_state, w_left, stdin_buf,
                   stdin_wopen, d_state, d_read, d_eof, d_left, stdout_buf,
                   fmtvars, mainvars>>

PipeNext ==
    \/ SpawnWriter
    \/ WriterWrite
    \/ WriterClose
    \/ DecoderRead
    \/ DecoderSeeEof
    \/ DecoderBeginWrite
    \/ DecoderWrite
    \/ DecoderExit
    \/ MainRead
    \/ MainReturn

PipeSpec == PipeInit /\ [][PipeNext]_vars

\* every thread and the decoder process keep being scheduled
FairPipeSpec ==
    /\ PipeSpec
    /\ WF_vars(SpawnWriter)
    /\ WF_vars(WriterWrite)
    /\ WF_vars(WriterClose)
    /\ WF_vars(DecoderRead)
    /\ WF_vars(DecoderSeeEof)
    /\ WF_vars(DecoderBeginWrite)
    /\ WF_vars(DecoderWrite)
    /\ WF_vars(DecoderExit)
    /\ WF_vars(MainRead)
    /\ WF_vars(MainReturn)

\* the writer is blocked on a full stdin pipe
WriterBlocked == w_state = "writing" /\ w_left > 0 /\ stdin_buf = pipe_cap

\* the decoder is blocked on a full stdout pipe
DecoderBlocked == d_state = "writing" /\ stdout_buf = pipe_cap

\* what always holds during the hand-off
HandOffSafe ==
    /\ ~stdin_wopen => (w_state = "done" /\ w_left = 0)
    /\ d_eof => (d_read = in_size /\ ~stdin_wopen)
    /\ m_state = "returned" => (d_state = "exited" /\ d_left = 0 /\ stdout_buf = 0)
    /\ (WriterBlocked /\ DecoderBlocked) => (m_state = "spawned" \/ ENABLED MainRead)
    /\ m_state # "returned" => ENABLED PipeNext

\* C15 (the hand-off never deadlocks): with a decoder that reads its input
\* to the end of file while printing and then exits, the writer thread
\* writes the whole input and only then closes the decoder's standard input,
\* the decoder sees the end of file after reading all of it, no state is
\* stuck with both pipes full, and the wait of the main thread for the
\* process and its output eventually returns.
C15_HandOffTerminates == [](HandOffSafe) /\ <>(m_state = "returned")

\* both pipes are full at once, writer and decoder both blocked
C15_Witness == WriterBlocked /\ DecoderBlocked /\ m_state = "reading"

====
